---- MODULE Spec2Model ----
(***************************************************************************)
(* Model of src/othello.py: the Othello rules functions (is_valid_move,    *)
(* get_valid_moves, count_flips, evaluate_move), the move selectors        *)
(* (select_next_play_random, select_next_play_ai), set_up_board and the    *)
(* game loops ai_vs_random and random_vs_random.                           *)
(*                                                                         *)
(* A board is a function row -> (col -> cell), rows and columns 0-based as *)
(* in the Python lists of lists.  A move is the tuple <<row, col>>.        *)
(***************************************************************************)
EXTENDS Integers, Sequences, FiniteSets, TLC

\* ---------------------------------------------------------------- bounds
\* Largest board height and width explored.
MaxHeight == 3
MaxWidth == 3
\* Largest number of pieces on the arbitrary boards given to the functions.
MaxPieces == 2
\* Largest number of cells of the boards on which termination is explored.
MaxFairCells == 12

\* ------------------------------------------------------ program constants
\* Cell and colour codes: 0 empty, 1 black, 2 white.
Empty == 0
Black == 1
White == 2
\* Python's None for the not-yet-decided winner.
None == 0
\* The board size the game functions pass to set_up_board.
GameSize == 8

VARIABLES
    board,            \* the board (list of lists)
    current_player,   \* colour to move / colour argument of a call
    pc,               \* position in the game loop, or the function called
    mode,             \* which entry point runs
    valid_moves,      \* local valid_moves of the game loop
    row,              \* row of the selected move / row argument
    col,              \* column of the selected move / column argument
    winner,           \* local winner of the game loop
    plies,            \* number of moves applied so far (history)
    ret               \* value returned (or exception raised) by the last call

vars == <<board, current_player, pc, mode, valid_moves, row, col, winner, plies, ret>>

\* ------------------------------------------------------------- helpers
\* len(board)
Height(b) == Cardinality(DOMAIN b)

\* len(board[0])
Width(b) == Cardinality(DOMAIN b[0])

\* 0 <= r < len(board) and 0 <= c < len(board[0])
InBounds(b, r, c) == 0 <= r /\ r < Height(b) /\ 0 <= c /\ c < Width(b)

\* 2 if color == 1 else 1
opposite(color) == IF color = 1 THEN 2 ELSE 1

\* for dr in [-1, 0, 1]: for dc in [-1, 0, 1]: skipping (0, 0), in loop order
Directions ==
    << <<-1, -1>>, <<-1, 0>>, <<-1, 1>>,
       <<0, -1>>,             <<0, 1>>,
       <<1, -1>>,  <<1, 0>>,  <<1, 1>> >>

\* ------------------------------------------------------- is_valid_move
\* First loop of is_valid_move: some in-bounds neighbour holds the
\* opposite colour.
has_opposite_neighbor(b, r0, c0, color) ==
    \E i \in 1..Len(Directions) :
        LET r == r0 + Directions[i][1]
            c == c0 + Directions[i][2]
        IN  InBounds(b, r, c) /\ b[r][c] = opposite(color)

\* The while loop of the second phase, from cell (r, c) in direction
\* (dr, dc): stops (FALSE) off the board or on an empty cell, returns TRUE on
\* the first cell of the given colour, steps on otherwise.
RECURSIVE line_reaches_color(_, _, _, _, _, _)
line_reaches_color(b, r, c, color, dr, dc) ==
    IF ~InBounds(b, r, c) THEN FALSE
    ELSE IF b[r][c] = 0 THEN FALSE
    ELSE IF b[r][c] = color THEN TRUE
    ELSE line_reaches_color(b, r + dr, c + dc, color, dr, dc)

\* is_valid_move without the test that the cell is empty.
is_valid_move_occupied(b, r0, c0, color) ==
    IF ~has_opposite_neighbor(b, r0, c0, color) THEN FALSE
    ELSE \E i \in 1..Len(Directions) :
            line_reaches_color(b, r0 + Directions[i][1], c0 + Directions[i][2],
                               color, Directions[i][1], Directions[i][2])

is_valid_move(b, r0, c0, color) ==
    IF b[r0][c0] # 0 THEN FALSE
    ELSE IF ~has_opposite_neighbor(b, r0, c0, color) THEN FALSE
    ELSE \E i \in 1..Len(Directions) :
            line_reaches_color(b, r0 + Directions[i][1], c0 + Directions[i][2],
                               color, Directions[i][1], Directions[i][2])

\* ----------------------------------------------------- get_valid_moves
\* The inner loop of get_valid_moves: the valid moves of row r from column c
\* on, in column order.
RECURSIVE scan_row(_, _, _, _)
scan_row(b, color, r, c) ==
    IF c >= Width(b) THEN <<>>
    ELSE (IF is_valid_move(b, r, c, color) THEN << <<r, c>> >> ELSE <<>>)
         \o scan_row(b, color, r, c + 1)

\* The outer loop of get_valid_moves: the valid moves of the rows from r on.
RECURSIVE scan_rows(_, _, _)
scan_rows(b, color, r) ==
    IF r >= Height(b) THEN <<>>
    ELSE scan_row(b, color, r, 0) \o scan_rows(b, color, r + 1)

\* The valid moves of column c from row r on.
RECURSIVE scan_column(_, _, _, _)
scan_column(b, color, r, c) ==
    IF r >= Height(b) THEN <<>>
    ELSE (IF is_valid_move(b, r, c, color) THEN << <<r, c>> >> ELSE <<>>)
         \o scan_column(b, color, r + 1, c)

\* The valid moves of the columns from c on.
RECURSIVE scan_columns(_, _, _)
scan_columns(b, color, c) ==
    IF c >= Width(b) THEN <<>>
    ELSE scan_column(b, color, 0, c) \o scan_columns(b, color, c + 1)

\* get_valid_moves with the loops swapped: columns outside, rows inside.
get_valid_moves_by_column(b, color) == scan_columns(b, color, 0)

get_valid_moves(b, color) == scan_rows(b, color, 0)

\* --------------------------------------------------------- count_flips
\* The while loop of count_flips: walks over opponent cells counting them,
\* then returns the count if the stopping cell is on the board and of the
\* mover's colour, else 0.
RECURSIVE count_walk(_, _, _, _, _, _, _)
count_walk(b, r, c, color, dr, dc, flips) ==
    IF InBounds(b, r, c) /\ b[r][c] = opposite(color)
    THEN count_walk(b, r + dr, c + dc, color, dr, dc, flips + 1)
    ELSE IF InBounds(b, r, c) /\ b[r][c] = color THEN flips ELSE 0

count_flips(b, r0, c0, color, dr, dc) ==
    count_walk(b, r0 + dr, c0 + dc, color, dr, dc, 0)

\* ------------------------------------------------------- evaluate_move
RECURSIVE sum_flips(_, _, _, _, _)
sum_flips(b, r0, c0, color, i) ==
    IF i > Len(Directions) THEN 0
    ELSE count_flips(b, r0, c0, color, Directions[i][1], Directions[i][2])
         + sum_flips(b, r0, c0, color, i + 1)

evaluate_move(b, r0, c0, color) ==
    IF b[r0][c0] # 0 THEN -1 ELSE sum_flips(b, r0, c0, color, 1)

\* ------------------------------------------------------------ selectors
\* Results of a selector: <<"return", move>> or <<"raise", exception>>.
Return(v) == <<"return", v>>
Raise(e) == <<"raise", e>>

\* The for loop of select_next_play_ai with score >= best_score.
RECURSIVE best_of_last(_, _, _, _, _, _)
best_of_last(b, color, moves, i, best_move, best_score) ==
    IF i > Len(moves) THEN best_move
    ELSE LET score == evaluate_move(b, moves[i][1], moves[i][2], color)
         IN  IF score >= best_score
             THEN best_of_last(b, color, moves, i + 1, moves[i], score)
             ELSE best_of_last(b, color, moves, i + 1, best_move, best_score)

\* The for loop of select_next_play_ai from index i on.
RECURSIVE best_of(_, _, _, _, _, _)
best_of(b, color, moves, i, best_move, best_score) ==
    IF i > Len(moves) THEN best_move
    ELSE LET score == evaluate_move(b, moves[i][1], moves[i][2], color)
         IN  IF score > best_score
             THEN best_of(b, color, moves, i + 1, moves[i], score)
             ELSE best_of(b, color, moves, i + 1, best_move, best_score)

\* select_next_play_ai with best_move starting from a default coordinate.
select_next_play_ai_default(b, color) ==
    LET moves == get_valid_moves(b, color)
    IN  Return(best_of(b, color, moves, 1, <<0, 0>>, -1))

\* valid_moves[0] raises IndexError on an empty list.
select_next_play_ai(b, color) ==
    LET moves == get_valid_moves(b, color)
    IN  IF moves = <<>> THEN Raise("IndexError")
        ELSE Return(best_of(b, color, moves, 1, moves[1], -1))

\* random.choice raises IndexError on an empty list, else returns any
\* element: the set of possible results.
select_next_play_random(b, color) ==
    LET moves == get_valid_moves(b, color)
    IN  IF moves = <<>> THEN {Raise("IndexError")}
        ELSE {Return(moves[i]) : i \in 1..Len(moves)}

\* --------------------------------------------------------- set_up_board
set_up_board(width, height) ==
    LET center_row == height \div 2
        center_col == width \div 2
    IN  [r \in 0..(height - 1) |-> [c \in 0..(width - 1) |->
            IF r = center_row /\ c = center_col THEN 2
            ELSE IF r = center_row - 1 /\ c = center_col - 1 THEN 2
            ELSE IF r = center_row /\ c = center_col - 1 THEN 1
            ELSE IF r = center_row - 1 /\ c = center_col THEN 1
            ELSE 0]]

\* board[row][col] == current_player: a comparison, the board is not written.
place_compare(b, r, c, color) == b

\* board[row][col] = current_player
place(b, r, c, color) == [b EXCEPT ![r][c] = color]

\* ------------------------------------------------------------ game loops
\* ai_vs_random / random_vs_random up to the loop: the board is set up,
\* black moves first, no winner yet.  The game functions pass (8, 8); the
\* loops are explored on every board size from 2 x 2 up to the bounds.
Init ==
    /\ mode \in {"ai_vs_random", "random_vs_random"}
    /\ \E w \in 2..MaxWidth, h \in 2..MaxHeight : board = set_up_board(w, h)
    /\ current_player = 1
    /\ winner = None
    /\ pc = "loop"
    /\ valid_moves = <<>>
    /\ row = 0
    /\ col = 0
    /\ plies = 0
    /\ ret = Return(<<0, 0>>)

\* The selector's result is unpacked into row, col; an exception leaves the
\* loop.
Selected(r) ==
    /\ ret' = r
    /\ IF r[1] = "return"
       THEN /\ row' = r[2][1]
            /\ col' = r[2][2]
            /\ pc' = "place"
       ELSE /\ UNCHANGED <<row, col>>
            /\ pc' = "raised"
    /\ UNCHANGED <<board, current_player, mode, valid_moves, winner, plies>>

\* The top of the loop naming the colour that cannot move as the winner.
ai_vs_random_loop_same_winner ==
    /\ mode = "ai_vs_random"
    /\ pc = "loop"
    /\ valid_moves' = get_valid_moves(board, current_player)
    /\ IF valid_moves' = <<>>
       THEN /\ winner' = current_player
            /\ pc' = "done"
       ELSE /\ winner' = winner
            /\ pc' = "select"
    /\ UNCHANGED <<board, current_player, mode, row, col, plies, ret>>

\* ai_vs_random, top of the while loop: compute the valid moves; with none,
\* the other colour wins and the loop ends.
ai_vs_random_loop ==
    /\ mode = "ai_vs_random"
    /\ pc = "loop"
    /\ valid_moves' = get_valid_moves(board, current_player)
    /\ IF valid_moves' = <<>>
       THEN /\ winner' = (IF current_player = 1 THEN 2 ELSE 1)
            /\ pc' = "done"
       ELSE /\ winner' = winner
            /\ pc' = "select"
    /\ UNCHANGED <<board, current_player, mode, row, col, plies, ret>>

\* ai_vs_random, black to move: the greedy selector.
ai_vs_random_select_ai ==
    /\ mode = "ai_vs_random"
    /\ pc = "select"
    /\ current_player = 1
    /\ \E r \in {select_next_play_ai(board, current_player)} : Selected(r)

\* ai_vs_random, white to move: the random selector.
ai_vs_random_select_random ==
    /\ mode = "ai_vs_random"
    /\ pc = "select"
    /\ current_player # 1
    /\ \E r \in select_next_play_random(board, current_player) : Selected(r)

\* ai_vs_random, the placement step: a valid move is written to the board
\* and the turn passes; otherwise "Invalid move" is printed and the loop
\* goes round.
ai_vs_random_place ==
    /\ mode = "ai_vs_random"
    /\ pc = "place"
    /\ IF is_valid_move(board, row, col, current_player)
       THEN /\ board' = place(board, row, col, current_player)
            /\ current_player' = (IF current_player = 1 THEN 2 ELSE 1)
            /\ plies' = plies + 1
       ELSE UNCHANGED <<board, current_player, plies>>
    /\ pc' = "loop"
    /\ UNCHANGED <<mode, valid_moves, row, col, winner, ret>>

\* random_vs_random, top of the while loop.
random_vs_random_loop ==
    /\ mode = "random_vs_random"
    /\ pc = "loop"
    /\ valid_moves' = get_valid_moves(board, current_player)
    /\ IF valid_moves' = <<>>
       THEN /\ winner' = (IF current_player = 1 THEN 2 ELSE 1)
            /\ pc' = "done"
       ELSE /\ winner' = winner
            /\ pc' = "select"
    /\ UNCHANGED <<board, current_player, mode, row, col, plies, ret>>

\* random_vs_random: the random selector for either colour.
random_vs_random_select ==
    /\ mode = "random_vs_random"
    /\ pc = "select"
    /\ \E r \in select_next_play_random(board, current_player) : Selected(r)

\* random_vs_random, the placement step.
random_vs_random_place ==
    /\ mode = "random_vs_random"
    /\ pc = "place"
    /\ IF is_valid_move(board, row, col, current_player)
       THEN /\ board' = place(board, row, col, current_player)
            /\ current_player' = (IF current_player = 1 THEN 2 ELSE 1)
            /\ plies' = plies + 1
       ELSE UNCHANGED <<board, current_player, plies>>
    /\ pc' = "loop"
    /\ UNCHANGED <<mode, valid_moves, row, col, winner, ret>>

Next ==
    \/ ai_vs_random_loop
    \/ ai_vs_random_select_ai
    \/ ai_vs_random_select_random
    \/ ai_vs_random_place
    \/ random_vs_random_loop
    \/ random_vs_random_select
    \/ random_vs_random_place

Spec == Init /\ [][Next]_vars

\* The games whose termination is explored: the boards of Init with at most
\* MaxFairCells cells.
InitFair == Init /\ Width(board) * Height(board) <= MaxFairCells

\* The loops are sequential code: a loop that can step does step.
FairSpec == InitFair /\ [][Next]_vars /\ WF_vars(Next)

\* ------------------------------------------------- the functions, called
\* Cells of a board of the given size.
CellsOf(height, width) == (0..(height - 1)) \X (0..(width - 1))

Cells(b) == CellsOf(Height(b), Width(b))

\* A caller's arguments: any board of the largest size with at most
\* MaxPieces pieces, or the board the game functions start from, and either
\* colour.
InitFn ==
    /\ mode = "call"
    /\ \/ \E S \in {T \in SUBSET CellsOf(MaxHeight, MaxWidth) : Cardinality(T) <= MaxPieces} :
            \E f \in [S -> {1, 2}] :
                board = [r \in 0..(MaxHeight - 1) |-> [c \in 0..(MaxWidth - 1) |->
                            IF <<r, c>> \in S THEN f[<<r, c>>] ELSE 0]]
       \/ board = set_up_board(GameSize, GameSize)
    /\ current_player \in {1, 2}
    /\ winner = None
    /\ pc = "input"
    /\ valid_moves = <<>>
    /\ row = 0
    /\ col = 0
    /\ plies = 0
    /\ ret = Return(<<0, 0>>)

call_is_valid_move ==
    /\ pc = "input"
    /\ \E r \in 0..(Height(board) - 1), c \in 0..(Width(board) - 1) :
        /\ row' = r
        /\ col' = c
        /\ ret' = is_valid_move(board, r, c, current_player)
    /\ pc' = "is_valid_move"
    /\ UNCHANGED <<board, current_player, mode, valid_moves, winner, plies>>

call_get_valid_moves ==
    /\ pc = "input"
    /\ ret' = get_valid_moves(board, current_player)
    /\ pc' = "get_valid_moves"
    /\ UNCHANGED <<board, current_player, mode, valid_moves, row, col, winner, plies>>

call_evaluate_move ==
    /\ pc = "input"
    /\ \E r \in 0..(Height(board) - 1), c \in 0..(Width(board) - 1) :
        /\ row' = r
        /\ col' = c
        /\ ret' = evaluate_move(board, r, c, current_player)
    /\ pc' = "evaluate_move"
    /\ UNCHANGED <<board, current_player, mode, valid_moves, winner, plies>>

call_select_next_play_ai ==
    /\ pc = "input"
    /\ ret' = select_next_play_ai(board, current_player)
    /\ pc' = "select_next_play_ai"
    /\ UNCHANGED <<board, current_player, mode, valid_moves, row, col, winner, plies>>

call_select_next_play_random ==
    /\ pc = "input"
    /\ ret' \in select_next_play_random(board, current_player)
    /\ pc' = "select_next_play_random"
    /\ UNCHANGED <<board, current_player, mode, valid_moves, row, col, winner, plies>>

NextFn ==
    \/ call_is_valid_move
    \/ call_get_valid_moves
    \/ call_evaluate_move
    \/ call_select_next_play_ai
    \/ call_select_next_play_random

SpecFn == InitFn /\ [][NextFn]_vars

\* ---------------------------------------------------------- properties
\* The cells from (r0, c0) in direction d form a sandwich of length n: n >= 1
\* cells of the opposite colour followed at once by an on-board cell of the
\* mover's colour.
IsSandwich(b, r0, c0, color, d, n) ==
    /\ n >= 1
    /\ \A k \in 1..n :
        /\ InBounds(b, r0 + k * d[1], c0 + k * d[2])
        /\ b[r0 + k * d[1]][c0 + k * d[2]] = opposite(color)
    /\ InBounds(b, r0 + (n + 1) * d[1], c0 + (n + 1) * d[2])
    /\ b[r0 + (n + 1) * d[1]][c0 + (n + 1) * d[2]] = color

\* The opposite-coloured cells of every run sandwiched from (r0, c0).
SandwichedCells(b, r0, c0, color) ==
    UNION {IF IsSandwich(b, r0, c0, color, Directions[i], n)
           THEN {<<r0 + k * Directions[i][1], c0 + k * Directions[i][2]>> : k \in 1..n}
           ELSE {} :
           i \in 1..Len(Directions), n \in 1..(Height(b) + Width(b))}

\* The Othello rule: the cell is empty and some direction holds a sandwich.
RuleLegal(b, r0, c0, color) ==
    b[r0][c0] = Empty /\ SandwichedCells(b, r0, c0, color) # {}

\* The board after the rule's move: the cell and the sandwiched cells take
\* the mover's colour, every other cell is unchanged.
RuleApplied(b, r0, c0, color) ==
    [r \in DOMAIN b |-> [c \in DOMAIN b[r] |->
        IF <<r, c>> = <<r0, c0>> \/ <<r, c>> \in SandwichedCells(b, r0, c0, color)
        THEN color ELSE b[r][c]]]

\* Number of occupied cells.
PieceCount(b) == Cardinality({cell \in Cells(b) : b[cell[1]][cell[2]] # Empty})

\* Row-major order on moves.
RowMajorBefore(m1, m2) == m1[1] < m2[1] \/ (m1[1] = m2[1] /\ m1[2] < m2[2])

\* A position of a game loop (as opposed to a called function).
InGame == mode \in {"ai_vs_random", "random_vs_random"}

\* C1: is_valid_move returns true exactly when the cell is empty and some
\* direction holds a non-empty run of opposite-coloured cells immediately
\* followed by a cell of the mover's colour.
C1_ValidIffSandwich ==
    pc = "is_valid_move" =>
        (ret <=> RuleLegal(board, row, col, current_player))

\* C2: the placement step of a valid move leaves the board with the cell and
\* every sandwiched opposite-coloured cell in the mover's colour and every
\* other cell unchanged.
C2_PlacementFlips ==
    [][(InGame /\ pc = "place" /\ is_valid_move(board, row, col, current_player))
        => board' = RuleApplied(board, row, col, current_player)]_vars

\* C3: on the fresh 8 x 8 board with black to move get_valid_moves returns
\* exactly (2,3), (3,2), (4,5), (5,4), in that order.
C3_FreshBoardMoves ==
    (pc = "get_valid_moves" /\ board = set_up_board(8, 8) /\ current_player = Black)
        => ret = << <<2, 3>>, <<3, 2>>, <<4, 5>>, <<5, 4>> >>

\* C4: get_valid_moves returns exactly the cells is_valid_move accepts, each
\* once, in row-major order, and all of them empty.
C4_ValidMovesExact ==
    pc = "get_valid_moves" =>
        /\ \A i \in 1..Len(ret) :
            /\ ret[i] \in Cells(board)
            /\ is_valid_move(board, ret[i][1], ret[i][2], current_player)
            /\ board[ret[i][1]][ret[i][2]] = Empty
        /\ \A cell \in Cells(board) :
            is_valid_move(board, cell[1], cell[2], current_player)
                => \E i \in 1..Len(ret) : ret[i] = cell
        /\ \A i, j \in 1..Len(ret) : i < j => RowMajorBefore(ret[i], ret[j])

C4_Witness ==
    /\ pc = "get_valid_moves"
    /\ Len(ret) >= 2
    /\ \E cell \in Cells(board) :
        board[cell[1]][cell[2]] = Empty /\ ~(\E i \in 1..Len(ret) : ret[i] = cell)

\* C5: with a legal move available select_next_play_ai returns a legal move
\* of maximal flip count, and no legal move before it in row-major order has
\* that flip count.
C5_GreedyFirstMax ==
    (pc = "select_next_play_ai" /\ get_valid_moves(board, current_player) # <<>>) =>
        LET moves == get_valid_moves(board, current_player)
            flips(m) == Cardinality(SandwichedCells(board, m[1], m[2], current_player))
        IN  /\ ret[1] = "return"
            /\ \E i \in 1..Len(moves) :
                /\ ret[2] = moves[i]
                /\ \A j \in 1..Len(moves) : flips(moves[j]) <= flips(moves[i])
                /\ \A j \in 1..Len(moves) :
                    RowMajorBefore(moves[j], moves[i]) => flips(moves[j]) < flips(moves[i])

\* A tie between the best moves, each flipping something, and the move
\* returned not the first of the list.
C5_Witness ==
    /\ pc = "select_next_play_ai"
    /\ ret[1] = "return"
    /\ LET moves == get_valid_moves(board, current_player)
           flips(m) == Cardinality(SandwichedCells(board, m[1], m[2], current_player))
       IN  /\ flips(ret[2]) >= 1
           /\ ret[2] # moves[1]
           /\ \E j \in 1..Len(moves) : moves[j] # ret[2] /\ flips(moves[j]) = flips(ret[2])

\* C6: on an empty cell is_valid_move is true exactly when evaluate_move is
\* at least 1.
C6_ValidIffFlips ==
    (pc = "is_valid_move" /\ board[row][col] = Empty) =>
        (ret <=> evaluate_move(board, row, col, current_player) >= 1)

\* C7: every applied move adds exactly one piece, a step that applies no
\* move adds none, and after n applied moves the board holds 4 + n pieces.
C7_PieceCount ==
    /\ [](InGame => PieceCount(board) = 4 + plies)
    /\ [][InGame =>
            IF pc = "place" /\ is_valid_move(board, row, col, current_player)
            THEN plies' = plies + 1 /\ PieceCount(board') = PieceCount(board) + 1
            ELSE plies' = plies /\ PieceCount(board') = PieceCount(board)]_vars

C7_Witness ==
    InGame /\ plies >= 3 /\ pc = "loop" /\ PieceCount(board) = 7

\* C8: the loop is over exactly when the colour to move has no valid move:
\* it has not ended while that colour has one, a selector is only asked
\* when there is one, and the winner is the opposite of the colour that
\* cannot move.
C8_GameOverIffNoMoves ==
    InGame =>
        /\ pc \in {"loop", "select", "place", "done"}
        /\ pc = "done" =>
            /\ get_valid_moves(board, current_player) = <<>>
            /\ winner = opposite(current_player)
        /\ pc \in {"select", "place"} =>
            /\ get_valid_moves(board, current_player) # <<>>
            /\ winner = None

C8_Witness ==
    InGame /\ pc = "done" /\ plies >= 1 /\ winner = Black

\* C9: a selector called when there is no valid move ends in a failure: it
\* returns no move, and the board is unchanged.
C9_SelectorFails ==
    [][(pc = "input" /\ pc' \in {"select_next_play_ai", "select_next_play_random"}
        /\ get_valid_moves(board, current_player) = <<>>)
        => (ret'[1] = "raise" /\ board' = board)]_vars

C9_Witness ==
    /\ pc = "select_next_play_ai"
    /\ get_valid_moves(board, current_player) = <<>>
    /\ \E cell \in Cells(board) : board[cell[1]][cell[2]] = Empty
    /\ ret = Raise("IndexError")

\* C10: every game reaches game over; each placement step puts one piece on
\* an empty cell and passes the turn, so at most W * H - 4 moves are applied.
C10_Terminates ==
    /\ <>(pc = "done")
    /\ [](plies <= Width(board) * Height(board) - 4)
    /\ [][pc = "place" =>
            /\ board[row][col] = Empty
            /\ board' = [board EXCEPT ![row][col] = current_player]
            /\ current_player' = opposite(current_player)]_vars

C10_Witness ==
    InGame /\ pc = "done" /\ plies >= 3 /\ plies = Width(board) * Height(board) - 4

====
